---------------------------- MODULE Spec2Model ----------------------------
(***************************************************************************)
(* GeoGrid: the play screen of src/App.tsx (board, construction history,   *)
(* goal evaluation, level navigation) over the geometry kernel of          *)
(* src/geometryUtils.ts.                                                   *)
(*                                                                         *)
(* JavaScript numbers are modelled as exact rationals <<n, d>> (d > 0);    *)
(* the tolerance tests of the code are kept as they are.                   *)
(* Object ids (Date.now(), Math.random()), labels and the isInitial /      *)
(* isIntersection flags are display data no handler reads: a point is its  *)
(* coordinates, a line its two end points and its type.                    *)
(***************************************************************************)
EXTENDS Integers, Sequences, FiniteSets, TLC

(***************************************************************************)
(* Bounds of the model.                                                    *)
(***************************************************************************)
\* the pointer visits the first NumPositions entries of PointerPositions
NumPositions == 2
\* no construction is started once the cursor has reached this index
MaxCursor == 2

(***************************************************************************)
(* Program constants.                                                      *)
(***************************************************************************)
GRID_SIZE == 7
CELL_SIZE == 60
PADDING == 40
DRAG_THRESHOLD_PX == 8
GRID_MIN == 0
GRID_MAX == 6

(***************************************************************************)
(* Exact rational arithmetic standing for JavaScript number arithmetic.    *)
(* A number is <<n, d>> with d > 0.  The operations leave their results    *)
(* unreduced; Lt compares any two fractions, and a coordinate is reduced   *)
(* to lowest terms when it is stored in a point, so that equal points are  *)
(* equal records.                                                          *)
(***************************************************************************)
AbsInt(n) == IF n < 0 THEN -n ELSE n

RECURSIVE GCD(_, _)
GCD(a, b) == IF b = 0 THEN a ELSE GCD(b, a % b)

\* n/d (d > 0) in lowest terms, g being the greatest common divisor
reduce(n, d, g) == <<n \div g, d \div g>>
Rat(n, d) == reduce(n, d, GCD(AbsInt(n), d))
Norm(a) == IF a[2] = 1 THEN a ELSE Rat(a[1], a[2])

Num(n) == <<n, 1>>
Add(a, b) == <<a[1] * b[2] + b[1] * a[2], a[2] * b[2]>>
Sub(a, b) == <<a[1] * b[2] - b[1] * a[2], a[2] * b[2]>>
Mul(a, b) == <<a[1] * b[1], a[2] * b[2]>>
Sq(a) == <<a[1] * a[1], a[2] * a[2]>>
\* a / b for b # 0
Div(a, b) ==
    IF b[1] < 0 THEN <<-(a[1] * b[2]), -(a[2] * b[1])>> ELSE <<a[1] * b[2], a[2] * b[1]>>
AbsR(a) == <<AbsInt(a[1]), a[2]>>

\* The same operations on fractions in lowest terms, with results in lowest
\* terms: sums are formed over the least common denominator and products
\* are cancelled crosswise, so that no intermediate value outgrows the
\* integers of the checker where the operands are close points.
addOver(a, b, g) == Rat(a[1] * (b[2] \div g) + b[1] * (a[2] \div g), (a[2] \div g) * b[2])
subOver(a, b, g) == Rat(a[1] * (b[2] \div g) - b[1] * (a[2] \div g), (a[2] \div g) * b[2])
AddLow(a, b) == addOver(a, b, GCD(a[2], b[2]))
SubLow(a, b) == subOver(a, b, GCD(a[2], b[2]))
MulLow(a, b) == Mul(Rat(a[1], b[2]), Rat(b[1], a[2]))
\* a / b for b # 0
DivLow(a, b) == MulLow(a, IF b[1] < 0 THEN <<-b[2], -b[1]>> ELSE <<b[2], b[1]>>)

\* n1/d1 < n2/d2 for d1, d2 > 0, by integer parts and then the reciprocals
\* of the fractional parts (no product is formed)
RECURSIVE ltFraction(_, _, _, _)
ltFraction(n1, d1, n2, d2) ==
    IF n1 \div d1 # n2 \div d2 THEN n1 \div d1 < n2 \div d2
    ELSE IF n2 % d2 = 0 THEN FALSE
    ELSE IF n1 % d1 = 0 THEN TRUE
    ELSE ltFraction(d2, n2 % d2, d1, n1 % d1)

Lt(a, b) == ltFraction(a[1], a[2], b[1], b[2])
Le(a, b) == ~ltFraction(b[1], b[2], a[1], a[2])

EPSILON == <<1, 10000>>
SNAP_THRESHOLD == <<2, 5>>

(***************************************************************************)
(* Data model (src/types.ts).                                              *)
(***************************************************************************)
LineType == {"SEGMENT", "RAY", "LINE"}
\* an absent optional type (type?: LineType, lineType?: LineType)
NoType == "undefined"

\* a point whose coordinates were computed
Pt(x, y) == [x |-> Norm(x), y |-> Norm(y)]
GridPt(i, j) == [x |-> Num(i), y |-> Num(j)]
\* the value null of a Point | null: no point has a zero denominator
NullPoint == [x |-> <<0, 0>>, y |-> <<0, 0>>]
Seg(p1, p2, type) == [p1 |-> p1, p2 |-> p2, type |-> type]

\* an optional list of a LevelConfig (points?: ..., segments?: ...)
Present(items) == [present |-> TRUE, items |-> items]
Absent == [present |-> FALSE, items |-> <<>>]

(***************************************************************************)
(* Geometry kernel (src/geometryUtils.ts).                                 *)
(***************************************************************************)
\* s.type || LineType.SEGMENT
typeOrSegment(type) == IF type = NoType THEN "SEGMENT" ELSE type

checkConstraint(t, type) ==
    CASE type = "SEGMENT" -> Le(Sub(Num(0), EPSILON), t) /\ Le(t, Add(Num(1), EPSILON))
      [] type = "RAY"     -> Le(Sub(Num(0), EPSILON), t)
      [] type = "LINE"    -> TRUE
      [] OTHER            -> Le(Sub(Num(0), EPSILON), t) /\ Le(t, Add(Num(1), EPSILON))

\* within [GRID_MIN - EPSILON, GRID_MAX + EPSILON]
inGrid(v) ==
    /\ Le(Sub(Num(GRID_MIN), EPSILON), v)
    /\ Le(v, Add(Num(GRID_MAX), EPSILON))

\* getIntersection with each parameter tested against the other line's type
getIntersectionTypesSwapped(s1, s2) ==
    LET x1 == s1.p1.x  y1 == s1.p1.y
        x2 == s1.p2.x  y2 == s1.p2.y
        x3 == s2.p1.x  y3 == s2.p1.y
        x4 == s2.p2.x  y4 == s2.p2.y
        denom == SubLow(MulLow(SubLow(y4, y3), SubLow(x2, x1)),
                        MulLow(SubLow(x4, x3), SubLow(y2, y1)))
        t == DivLow(SubLow(MulLow(SubLow(x4, x3), SubLow(y1, y3)),
                           MulLow(SubLow(y4, y3), SubLow(x1, x3))), denom)
        u == DivLow(SubLow(MulLow(SubLow(x2, x1), SubLow(y1, y3)),
                           MulLow(SubLow(y2, y1), SubLow(x1, x3))), denom)
        ix == AddLow(x1, MulLow(t, SubLow(x2, x1)))
        iy == AddLow(y1, MulLow(t, SubLow(y2, y1)))
    IN  IF Lt(AbsR(denom), EPSILON) THEN NullPoint
        ELSE IF /\ checkConstraint(t, s2.type)
                /\ checkConstraint(u, s1.type)
                /\ inGrid(ix)
                /\ inGrid(iy)
             THEN Pt(ix, iy)
             ELSE NullPoint

getIntersection(s1, s2) ==
    LET x1 == s1.p1.x  y1 == s1.p1.y
        x2 == s1.p2.x  y2 == s1.p2.y
        x3 == s2.p1.x  y3 == s2.p1.y
        x4 == s2.p2.x  y4 == s2.p2.y
        denom == SubLow(MulLow(SubLow(y4, y3), SubLow(x2, x1)),
                        MulLow(SubLow(x4, x3), SubLow(y2, y1)))
        t == DivLow(SubLow(MulLow(SubLow(x4, x3), SubLow(y1, y3)),
                           MulLow(SubLow(y4, y3), SubLow(x1, x3))), denom)
        u == DivLow(SubLow(MulLow(SubLow(x2, x1), SubLow(y1, y3)),
                           MulLow(SubLow(y2, y1), SubLow(x1, x3))), denom)
        ix == AddLow(x1, MulLow(t, SubLow(x2, x1)))
        iy == AddLow(y1, MulLow(t, SubLow(y2, y1)))
    IN  IF Lt(AbsR(denom), EPSILON) THEN NullPoint
        ELSE IF /\ checkConstraint(t, s1.type)
                /\ checkConstraint(u, s2.type)
                /\ inGrid(ix)
                /\ inGrid(iy)
             THEN Pt(ix, iy)
             ELSE NullPoint

pointsEqual(p1, p2) ==
    /\ Lt(AbsR(Sub(p1.x, p2.x)), EPSILON)
    /\ Lt(AbsR(Sub(p1.y, p2.y)), EPSILON)

\* |dot - 1| < EPSILON for dot = v1.v2 / (|v1| |v2|), without the square roots:
\* dot <= 1, and dot > 1 - EPSILON iff v1.v2 > 0 and
\* (v1 x v2)^2 / (|v1|^2 |v2|^2) < EPSILON (2 - EPSILON).  A zero vector makes
\* dot NaN and the comparison false.
sameDirection(v1x, v1y, v2x, v2y) ==
    LET m1 == Add(Sq(v1x), Sq(v1y))
        m2 == Add(Sq(v2x), Sq(v2y))
        dotNum == Add(Mul(v1x, v2x), Mul(v1y, v2y))
        cross == Sub(Mul(v1x, v2y), Mul(v1y, v2x))
    IN  /\ m1[1] > 0
        /\ m2[1] > 0
        /\ dotNum[1] > 0
        /\ Lt(Div(Sq(cross), Mul(m1, m2)), Mul(EPSILON, Sub(Num(2), EPSILON)))

\* segmentsEqual without its typeMatch test
segmentsEqualAnyType(s1, s2) ==
    LET t1 == typeOrSegment(s1.type)
        crossProduct == SubLow(MulLow(SubLow(s1.p2.x, s1.p1.x), SubLow(s2.p2.y, s2.p1.y)),
                               MulLow(SubLow(s1.p2.y, s1.p1.y), SubLow(s2.p2.x, s2.p1.x)))
        dist == SubLow(MulLow(SubLow(s1.p2.x, s1.p1.x), SubLow(s2.p1.y, s1.p1.y)),
                       MulLow(SubLow(s1.p2.y, s1.p1.y), SubLow(s2.p1.x, s1.p1.x)))
    IN  IF t1 = "SEGMENT"
        THEN \/ pointsEqual(s1.p1, s2.p1) /\ pointsEqual(s1.p2, s2.p2)
             \/ pointsEqual(s1.p1, s2.p2) /\ pointsEqual(s1.p2, s2.p1)
        ELSE IF s1.type = "RAY"
             THEN /\ pointsEqual(s1.p1, s2.p1)
                  /\ sameDirection(Sub(s1.p2.x, s1.p1.x), Sub(s1.p2.y, s1.p1.y),
                                   Sub(s2.p2.x, s2.p1.x), Sub(s2.p2.y, s2.p1.y))
        ELSE IF Lt(EPSILON, AbsR(crossProduct)) THEN FALSE
        ELSE Lt(AbsR(dist), EPSILON)

\* segmentsEqual whose rays match in either direction along the same line
segmentsEqualUndirected(s1, s2) ==
    LET t1 == typeOrSegment(s1.type)
        crossProduct == SubLow(MulLow(SubLow(s1.p2.x, s1.p1.x), SubLow(s2.p2.y, s2.p1.y)),
                               MulLow(SubLow(s1.p2.y, s1.p1.y), SubLow(s2.p2.x, s2.p1.x)))
        dist == SubLow(MulLow(SubLow(s1.p2.x, s1.p1.x), SubLow(s2.p1.y, s1.p1.y)),
                       MulLow(SubLow(s1.p2.y, s1.p1.y), SubLow(s2.p1.x, s1.p1.x)))
    IN  IF t1 # typeOrSegment(s2.type) THEN FALSE
        ELSE IF t1 = "SEGMENT"
             THEN \/ pointsEqual(s1.p1, s2.p1) /\ pointsEqual(s1.p2, s2.p2)
                  \/ pointsEqual(s1.p1, s2.p2) /\ pointsEqual(s1.p2, s2.p1)
        ELSE IF Lt(EPSILON, AbsR(crossProduct)) THEN FALSE
        ELSE Lt(AbsR(dist), EPSILON)

segmentsEqual(s1, s2) ==
    LET t1 == typeOrSegment(s1.type)
        crossProduct == SubLow(MulLow(SubLow(s1.p2.x, s1.p1.x), SubLow(s2.p2.y, s2.p1.y)),
                               MulLow(SubLow(s1.p2.y, s1.p1.y), SubLow(s2.p2.x, s2.p1.x)))
        dist == SubLow(MulLow(SubLow(s1.p2.x, s1.p1.x), SubLow(s2.p1.y, s1.p1.y)),
                       MulLow(SubLow(s1.p2.y, s1.p1.y), SubLow(s2.p1.x, s1.p1.x)))
    IN  IF t1 # typeOrSegment(s2.type) THEN FALSE
        ELSE IF t1 = "SEGMENT"
             THEN \/ pointsEqual(s1.p1, s2.p1) /\ pointsEqual(s1.p2, s2.p2)
                  \/ pointsEqual(s1.p1, s2.p2) /\ pointsEqual(s1.p2, s2.p1)
        ELSE IF s1.type = "RAY"
             THEN /\ pointsEqual(s1.p1, s2.p1)
                  /\ sameDirection(Sub(s1.p2.x, s1.p1.x), Sub(s1.p2.y, s1.p1.y),
                                   Sub(s2.p2.x, s2.p1.x), Sub(s2.p2.y, s2.p1.y))
        ELSE IF Lt(EPSILON, AbsR(crossProduct)) THEN FALSE
        ELSE Lt(AbsR(dist), EPSILON)

distSq(p1, p2) == AddLow(Sq(SubLow(p1.x, p2.x)), Sq(SubLow(p1.y, p2.y)))

(***************************************************************************)
(* Level data.  levels.json is fetched at run time and is not part of the  *)
(* sources: the model plays these four levels in two groups.               *)
(***************************************************************************)
\* generatedJson of the level editor: every list is written, empty or not
generatedJson(levelId, defaultLineType, initial, goal) ==
    [id |-> levelId,
     lineType |-> defaultLineType,
     initial |-> [points |-> Present(initial.points), segments |-> Present(initial.segments)],
     goals |-> [points |-> Present(goal.points), segments |-> Present(goal.segments)]]

\* draw the diagonal: the end-to-end example of the specification
Level1 ==
    [id |-> 1,
     lineType |-> NoType,
     initial |-> [points |-> Present(<<GridPt(0, 0), GridPt(6, 6)>>), segments |-> Absent],
     goals |-> [points |-> Absent,
                segments |-> Present(<<Seg(GridPt(0, 0), GridPt(6, 6), NoType)>>)]]

\* the diagonal is given, reveal its far end; the tool draws rays
Level2 ==
    [id |-> 2,
     lineType |-> "RAY",
     initial |-> [points |-> Present(<<GridPt(0, 0)>>),
                  segments |-> Present(<<Seg(GridPt(0, 0), GridPt(6, 6), NoType)>>)],
     goals |-> [points |-> Present(<<GridPt(6, 6)>>), segments |-> Absent]]

\* a level exported by the editor before any goal was drawn
Level3 ==
    generatedJson(3, "SEGMENT", [points |-> <<GridPt(0, 0)>>, segments |-> <<>>],
                  [points |-> <<>>, segments |-> <<>>])

\* the diagonal is asked for as a segment, but the tool draws lines
Level4 ==
    [id |-> 4,
     lineType |-> "LINE",
     initial |-> [points |-> Present(<<GridPt(0, 0), GridPt(6, 6)>>), segments |-> Absent],
     goals |-> [points |-> Absent,
                segments |-> Present(<<Seg(GridPt(0, 0), GridPt(6, 6), "SEGMENT")>>)]]

LevelGroups ==
    << [id |-> 1, levels |-> <<Level1>>],
       [id |-> 2, levels |-> <<Level2, Level3, Level4>>] >>

\* where the pointer goes, in client pixels (clientX, clientY)
PointerPositions ==
    << [x |-> 40, y |-> 40],      \* on vertex (0,0)
       [x |-> 400, y |-> 400],    \* on vertex (6,6)
       [x |-> 46, y |-> 40],      \* (0.1, 0): 6 px from the first position
       [x |-> 232, y |-> 214],    \* (3.2, 2.9): within reach of vertex (3,3)
       [x |-> 130, y |-> 130],    \* (1.5, 1.5): within reach of no vertex
       [x |-> 40, y |-> 400],     \* on vertex (0,6)
       [x |-> 238, y |-> 238] >>  \* (3.3, 3.3): 0.3 from (3,3) on each axis, 0.42 away

Positions == {PointerPositions[i] : i \in 1..NumPositions}

(***************************************************************************)
(* The component's state (useState hooks of App) and the memoised list of  *)
(* discoverable points.  currentMousePos and dragSnapPoint are left out:   *)
(* they are written by the mouse handlers and read by the SVG ghost line   *)
(* only.                                                                   *)
(***************************************************************************)
VARIABLES
    levelGroups, isLoading, currentView, levelIndex,
    visiblePoints, segments,
    history, historyIndex,
    isLevelCleared, clearedLevelIds,
    dragStartPoint, startMouseScreenPos, isActuallyDragging,
    allDiscoverablePoints,
    lastEvent,  \* bookkeeping: the handler that ran last, and the cursor and
                \* history length it found
    fnIn, fnOut \* a function studied on its own: its arguments, and the results
                \* of its successive applications

appVars == <<levelGroups, isLoading, currentView, levelIndex, visiblePoints, segments,
             history, historyIndex, isLevelCleared, clearedLevelIds,
             dragStartPoint, startMouseScreenPos, isActuallyDragging,
             allDiscoverablePoints, lastEvent>>
vars == <<appVars, fnIn, fnOut>>

\* no function is under study
NoCall == [fn |-> "none"]

\* the value null of startMouseScreenPos
NullPos == [x |-> -1, y |-> -1]

RECURSIVE flatLevels(_)
flatLevels(groups) ==
    IF groups = <<>> THEN <<>> ELSE Head(groups).levels \o flatLevels(Tail(groups))

allLevels(s) == flatLevels(s.levelGroups)
hasCurrentLevel(s) == s.levelIndex + 1 \in DOMAIN allLevels(s)
currentLevel(s) == allLevels(s)[s.levelIndex + 1]

(***************************************************************************)
(* Discoverable points (useMemo over segments).                            *)
(***************************************************************************)
\* addPoint that drops a point only when the very same coordinates are listed
addPointUnlessIdentical(points, p) ==
    IF \/ Lt(p.x, Sub(Num(0), EPSILON))
       \/ Lt(Add(Num(GRID_SIZE - 1), EPSILON), p.x)
       \/ Lt(p.y, Sub(Num(0), EPSILON))
       \/ Lt(Add(Num(GRID_SIZE - 1), EPSILON), p.y)
    THEN points
    ELSE IF \E i \in 1..Len(points) : points[i] = p
         THEN points
         ELSE Append(points, p)

addPoint(points, p) ==
    IF \/ Lt(p.x, Sub(Num(0), EPSILON))
       \/ Lt(Add(Num(GRID_SIZE - 1), EPSILON), p.x)
       \/ Lt(p.y, Sub(Num(0), EPSILON))
       \/ Lt(Add(Num(GRID_SIZE - 1), EPSILON), p.y)
    THEN points
    ELSE IF \E i \in 1..Len(points) : pointsEqual(points[i], p)
         THEN points
         ELSE Append(points, p)

\* addPoint for each candidate in turn.  The list is split in halves, and the
\* result of the first half is bound as a value before the second half runs,
\* which keeps the evaluation shallow; the calls are made in the list's order.
RECURSIVE addPoints(_, _)
addPoints(points, candidates) ==
    IF candidates = <<>> THEN points
    ELSE IF Len(candidates) = 1 THEN addPoint(points, candidates[1])
    ELSE LET half == Len(candidates) \div 2
         IN  CHOOSE result \in
                 {addPoints(first, SubSeq(candidates, half + 1, Len(candidates))) :
                     first \in {addPoints(points, SubSeq(candidates, 1, half))}} : TRUE

\* the type gate that holds a ray to the range of a segment
validParamAsSegment(t, type) ==
    IF type = "SEGMENT" \/ type = "RAY"
    THEN Le(Sub(Num(0), EPSILON), t) /\ Le(t, Add(Num(1), EPSILON))
    ELSE TRUE

\* the type gate of the grid-line crossings
validParam(t, type) ==
    IF type = "SEGMENT"
    THEN Le(Sub(Num(0), EPSILON), t) /\ Le(t, Add(Num(1), EPSILON))
    ELSE IF type = "RAY" THEN Le(Sub(Num(0), EPSILON), t) ELSE TRUE

\* what one line contributes, in the order the loop body adds it
lineCandidates(segs, idx) ==
    LET s == segs[idx]
        type == typeOrSegment(s.type)
        dx == Sub(s.p2.x, s.p1.x)
        dy == Sub(s.p2.y, s.p1.y)
        crossing(j) == getIntersection(s, segs[idx + j])
        vertical(k) ==
            IF Lt(EPSILON, AbsR(dx)) /\ validParam(Div(Sub(Num(k), s.p1.x), dx), type)
            THEN Pt(Num(k), Add(s.p1.y, Mul(Div(Sub(Num(k), s.p1.x), dx), dy)))
            ELSE NullPoint
        horizontal(k) ==
            IF Lt(EPSILON, AbsR(dy)) /\ validParam(Div(Sub(Num(k), s.p1.y), dy), type)
            THEN Pt(Add(s.p1.x, Mul(Div(Sub(Num(k), s.p1.y), dy), dx)), Num(k))
            ELSE NullPoint
        all == [j \in 1..(Len(segs) - idx) |-> crossing(j)]
               \o [k \in 1..GRID_SIZE |-> vertical(k - 1)]
               \o [k \in 1..GRID_SIZE |-> horizontal(k - 1)]
    IN  SelectSeq(all, LAMBDA p : p # NullPoint)

gridVertices ==
    addPoints(<<>>, [i \in 1..(GRID_SIZE * GRID_SIZE) |->
                        GridPt((i - 1) \div GRID_SIZE, (i - 1) % GRID_SIZE)])

\* segments.forEach from line idx on
RECURSIVE discoverFrom(_, _, _)
discoverFrom(points, segs, idx) ==
    IF idx > Len(segs) THEN points
    ELSE CHOOSE result \in
             {discoverFrom(next, segs, idx + 1) :
                 next \in {addPoints(points, lineCandidates(segs, idx))}} : TRUE

discoverablePoints(segs) == discoverFrom(gridVertices, segs, 1)

(***************************************************************************)
(* Handlers.  Each takes c, the state of the render whose closure it is,   *)
(* and u, the state the queued updates have produced so far, and gives u   *)
(* with its own updates applied.                                           *)
(***************************************************************************)
State ==
    [levelGroups |-> levelGroups, isLoading |-> isLoading,
     currentView |-> currentView, levelIndex |-> levelIndex,
     visiblePoints |-> visiblePoints, segments |-> segments,
     history |-> history, historyIndex |-> historyIndex,
     isLevelCleared |-> isLevelCleared, clearedLevelIds |-> clearedLevelIds,
     dragStartPoint |-> dragStartPoint, startMouseScreenPos |-> startMouseScreenPos,
     isActuallyDragging |-> isActuallyDragging,
     allDiscoverablePoints |-> allDiscoverablePoints]

\* Array.prototype.slice(0, end)
slice0(seq, end) ==
    LET n == IF end < 0 THEN Len(seq) + end ELSE end
    IN  SubSeq(seq, 1, IF n > Len(seq) THEN Len(seq) ELSE n)

\* Array.prototype.findIndex, given the outcome of its test on each element:
\* 0-based, -1 when nothing passes
findIndex(passed) ==
    IF \E i \in 1..Len(passed) : passed[i]
    THEN (CHOOSE i \in 1..Len(passed) : passed[i] /\ \A j \in 1..(i - 1) : ~passed[j]) - 1
    ELSE -1

includes(seq, v) == \E i \in 1..Len(seq) : seq[i] = v

resetInteraction(u) ==
    [u EXCEPT !.dragStartPoint = NullPoint,
              !.startMouseScreenPos = NullPos,
              !.isActuallyDragging = FALSE]

\* commitToHistory appending to the whole history, the redoable entries kept
commitKeepingRedo(c, u, newPoints, newSegments) ==
    LET newState == [points |-> newPoints, segments |-> newSegments]
    IN  [u EXCEPT !.history = u.history \o <<newState>>,
                  !.historyIndex = u.historyIndex + 1,
                  !.visiblePoints = newPoints,
                  !.segments = newSegments]

commitToHistory(c, u, newPoints, newSegments) ==
    LET newState == [points |-> newPoints, segments |-> newSegments]
    IN  [u EXCEPT !.history = slice0(u.history, c.historyIndex + 1) \o <<newState>>,
                  !.historyIndex = u.historyIndex + 1,
                  !.visiblePoints = newPoints,
                  !.segments = newSegments]

initPoints(level) == level.initial.points.items
initSegments(level) ==
    [i \in 1..Len(level.initial.segments.items) |->
        LET s == level.initial.segments.items[i]
        IN  Seg(s.p1, s.p2, typeOrSegment(s.type))]

\* resetLevel without its setHistory([startState])
resetKeepingHistory(c, u) ==
    IF ~hasCurrentLevel(c) THEN u
    ELSE [resetInteraction(u) EXCEPT
              !.isLevelCleared = FALSE,
              !.historyIndex = 0,
              !.visiblePoints = initPoints(currentLevel(c)),
              !.segments = initSegments(currentLevel(c))]

\* resetLevel without its call of resetInteraction
resetLeavingDrag(c, u) ==
    IF ~hasCurrentLevel(c) THEN u
    ELSE LET startState == [points |-> initPoints(currentLevel(c)),
                            segments |-> initSegments(currentLevel(c))]
         IN  [u EXCEPT
                  !.isLevelCleared = FALSE,
                  !.history = <<startState>>,
                  !.historyIndex = 0,
                  !.visiblePoints = startState.points,
                  !.segments = startState.segments]

resetLevel(c, u) ==
    IF ~hasCurrentLevel(c) THEN u
    ELSE LET startState == [points |-> initPoints(currentLevel(c)),
                            segments |-> initSegments(currentLevel(c))]
         IN  [resetInteraction(u) EXCEPT
                  !.isLevelCleared = FALSE,
                  !.history = <<startState>>,
                  !.historyIndex = 0,
                  !.visiblePoints = startState.points,
                  !.segments = startState.segments]

\* undo without its test of the cursor
undoPastStart(c, u) ==
    LET prevIndex == c.historyIndex - 1
    IN  IF prevIndex >= 0
        THEN [u EXCEPT !.historyIndex = prevIndex,
                       !.visiblePoints = c.history[prevIndex + 1].points,
                       !.segments = c.history[prevIndex + 1].segments,
                       !.isLevelCleared = FALSE]
        ELSE [u EXCEPT !.historyIndex = prevIndex, !.isLevelCleared = FALSE]

undo(c, u) ==
    IF c.historyIndex > 0
    THEN LET prevIndex == c.historyIndex - 1
             state == c.history[prevIndex + 1]
         IN  [u EXCEPT !.historyIndex = prevIndex,
                       !.visiblePoints = state.points,
                       !.segments = state.segments,
                       !.isLevelCleared = FALSE]
    ELSE u

\* redo with the setIsLevelCleared(false) of undo, made before the test
redoUnclearing(c, u) ==
    IF c.historyIndex < Len(c.history) - 1
    THEN [u EXCEPT !.historyIndex = c.historyIndex + 1,
                   !.visiblePoints = c.history[c.historyIndex + 2].points,
                   !.segments = c.history[c.historyIndex + 2].segments,
                   !.isLevelCleared = FALSE]
    ELSE [u EXCEPT !.isLevelCleared = FALSE]

\* redo restoring the points of the next entry and not its lines
redoPointsOnly(c, u) ==
    IF c.historyIndex < Len(c.history) - 1
    THEN [u EXCEPT !.historyIndex = c.historyIndex + 1,
                   !.visiblePoints = c.history[c.historyIndex + 2].points]
    ELSE u

redo(c, u) ==
    IF c.historyIndex < Len(c.history) - 1
    THEN LET nextIndex == c.historyIndex + 1
             state == c.history[nextIndex + 1]
         IN  [u EXCEPT !.historyIndex = nextIndex,
                       !.visiblePoints = state.points,
                       !.segments = state.segments]
    ELSE u

\* the screen-to-grid map with the SVG drawn unscaled at the page origin
getGridCoords(e) == Pt(<<e.x - PADDING, CELL_SIZE>>, <<e.y - PADDING, CELL_SIZE>>)

\* the loop of findNearestPoint from candidate i on; minDSq is minD squared
RECURSIVE nearestFrom(_, _, _, _, _)
nearestFrom(candidates, i, target, minDSq, closest) ==
    IF i > Len(candidates) THEN closest
    ELSE LET d == distSq(candidates[i], target)
         IN  IF Lt(d, minDSq)
             THEN nearestFrom(candidates, i + 1, target, d, candidates[i])
             ELSE nearestFrom(candidates, i + 1, target, minDSq, closest)

\* minD never exceeds SNAP_THRESHOLD, so a candidate at that distance or more
\* never becomes closest: the loop is run over the others, in their order
findNearestPoint(c, grid) ==
    LET inReach(p) == Lt(distSq(p, grid), Sq(SNAP_THRESHOLD))
    IN  nearestFrom(SelectSeq(c.visiblePoints \o c.allDiscoverablePoints, inReach), 1, grid,
                    Sq(SNAP_THRESHOLD), NullPoint)

handleMouseDown(c, u, e) ==
    IF c.isLevelCleared THEN u
    ELSE LET startPoint == findNearestPoint(c, getGridCoords(e))
         IN  IF startPoint # NullPoint
             THEN [u EXCEPT !.dragStartPoint = startPoint,
                            !.startMouseScreenPos = e,
                            !.isActuallyDragging = FALSE]
             ELSE u

handleMouseMove(c, u, e) ==
    IF c.dragStartPoint # NullPoint /\ c.startMouseScreenPos # NullPos
    THEN LET dx == e.x - c.startMouseScreenPos.x
             dy == e.y - c.startMouseScreenPos.y
         IN  IF dx * dx + dy * dy > DRAG_THRESHOLD_PX * DRAG_THRESHOLD_PX
             THEN [u EXCEPT !.isActuallyDragging = TRUE]
             ELSE u
    ELSE u

\* handleMouseUp committing a placed point alone: [endPoint] for
\* [...visiblePoints, endPoint]
handleMouseUpPointAlone(c, u, e) ==
    IF c.dragStartPoint = NullPoint THEN resetInteraction(u)
    ELSE
    LET endPoint == findNearestPoint(c, getGridCoords(e))
        lineType == typeOrSegment(currentLevel(c).lineType)
        drawn == Seg(c.dragStartPoint, endPoint, lineType)
        hasPoint(points, p) == \E i \in 1..Len(points) : pointsEqual(points[i], p)
        withStart == IF hasPoint(c.visiblePoints, c.dragStartPoint)
                     THEN c.visiblePoints
                     ELSE Append(c.visiblePoints, c.dragStartPoint)
        newPoints == IF hasPoint(withStart, endPoint) THEN withStart
                     ELSE Append(withStart, endPoint)
    IN  IF c.isActuallyDragging
        THEN IF /\ endPoint # NullPoint
                /\ ~pointsEqual(c.dragStartPoint, endPoint)
                /\ ~\E i \in 1..Len(c.segments) : segmentsEqual(c.segments[i], drawn)
             THEN resetInteraction(
                      commitToHistory(c, u, newPoints, Append(c.segments, drawn)))
             ELSE resetInteraction(u)
        ELSE IF endPoint # NullPoint /\ ~hasPoint(c.visiblePoints, endPoint)
             THEN resetInteraction(
                      commitToHistory(c, u, <<endPoint>>, c.segments))
             ELSE resetInteraction(u)

\* handleMouseUp drawing a line from a point to itself: the test
\* !pointsEqual(dragStartPoint, endPoint) left out
handleMouseUpSamePoint(c, u, e) ==
    IF c.dragStartPoint = NullPoint THEN resetInteraction(u)
    ELSE
    LET endPoint == findNearestPoint(c, getGridCoords(e))
        lineType == typeOrSegment(currentLevel(c).lineType)
        drawn == Seg(c.dragStartPoint, endPoint, lineType)
        hasPoint(points, p) == \E i \in 1..Len(points) : pointsEqual(points[i], p)
        withStart == IF hasPoint(c.visiblePoints, c.dragStartPoint)
                     THEN c.visiblePoints
                     ELSE Append(c.visiblePoints, c.dragStartPoint)
        newPoints == IF hasPoint(withStart, endPoint) THEN withStart
                     ELSE Append(withStart, endPoint)
    IN  IF c.isActuallyDragging
        THEN IF /\ endPoint # NullPoint
                /\ ~\E i \in 1..Len(c.segments) : segmentsEqual(c.segments[i], drawn)
             THEN resetInteraction(
                      commitToHistory(c, u, newPoints, Append(c.segments, drawn)))
             ELSE resetInteraction(u)
        ELSE IF endPoint # NullPoint /\ ~hasPoint(c.visiblePoints, endPoint)
             THEN resetInteraction(
                      commitToHistory(c, u, Append(c.visiblePoints, endPoint), c.segments))
             ELSE resetInteraction(u)

handleMouseUp(c, u, e) ==
    IF c.dragStartPoint = NullPoint THEN resetInteraction(u)
    ELSE
    LET endPoint == findNearestPoint(c, getGridCoords(e))
        lineType == typeOrSegment(currentLevel(c).lineType)
        drawn == Seg(c.dragStartPoint, endPoint, lineType)
        hasPoint(points, p) == \E i \in 1..Len(points) : pointsEqual(points[i], p)
        withStart == IF hasPoint(c.visiblePoints, c.dragStartPoint)
                     THEN c.visiblePoints
                     ELSE Append(c.visiblePoints, c.dragStartPoint)
        newPoints == IF hasPoint(withStart, endPoint) THEN withStart
                     ELSE Append(withStart, endPoint)
    IN  IF c.isActuallyDragging
        THEN IF /\ endPoint # NullPoint
                /\ ~pointsEqual(c.dragStartPoint, endPoint)
                /\ ~\E i \in 1..Len(c.segments) : segmentsEqual(c.segments[i], drawn)
             THEN resetInteraction(
                      commitToHistory(c, u, newPoints, Append(c.segments, drawn)))
             ELSE resetInteraction(u)
        ELSE IF endPoint # NullPoint /\ ~hasPoint(c.visiblePoints, endPoint)
             THEN resetInteraction(
                      commitToHistory(c, u, Append(c.visiblePoints, endPoint), c.segments))
             ELSE resetInteraction(u)

startGroup(c, u, group) ==
    LET inGroup(l) == \E i \in 1..Len(group.levels) : group.levels[i].id = l.id
        unfinished(l) == inGroup(l) /\ ~includes(c.clearedLevelIds, l.id)
        isFirst(l) == l.id = group.levels[1].id
        firstUnfinishedIndex ==
            findIndex([i \in 1..Len(allLevels(c)) |-> unfinished(allLevels(c)[i])])
    IN  [u EXCEPT !.levelIndex =
                      IF firstUnfinishedIndex # -1 THEN firstUnfinishedIndex
                      ELSE findIndex([i \in 1..Len(allLevels(c)) |-> isFirst(allLevels(c)[i])]),
                  !.currentView = "PLAY"]

previousLevel(c, u) ==
    IF c.levelIndex > 0 THEN [u EXCEPT !.levelIndex = c.levelIndex - 1] ELSE u

nextLevel(c, u) ==
    IF c.isLevelCleared /\ c.levelIndex < Len(allLevels(c)) - 1
    THEN [u EXCEPT !.levelIndex = c.levelIndex + 1]
    ELSE u

(***************************************************************************)
(* Effects.  After a render the effects whose dependencies changed run in  *)
(* the order of their declaration, all with the closure c of that render;  *)
(* their updates are queued and applied together.                          *)
(***************************************************************************)
\* useEffect(..., [levelIndex, currentView, resetLevel, currentLevel])
resetLevelEffect(prev, c, u) ==
    IF /\ \/ prev.levelIndex # c.levelIndex
          \/ prev.currentView # c.currentView
          \/ prev.levelGroups # c.levelGroups
       /\ c.currentView = "PLAY"
       /\ hasCurrentLevel(c)
    THEN resetLevel(c, u)
    ELSE u

\* the test of the goal effect asking for both lists: goals.points && goals.segments
goalSatisfiedBothLists(goals, points, segs) ==
    /\ goals.points.present
    /\ goals.segments.present
    /\ \A g \in 1..Len(goals.points.items) :
           \E v \in 1..Len(points) : pointsEqual(points[v], goals.points.items[g])
    /\ \A g \in 1..Len(goals.segments.items) :
           \E v \in 1..Len(segs) : segmentsEqual(segs[v], goals.segments.items[g])

\* the test of the goal effect with every and some exchanged: each element of
\* the board must be an element of the goal
goalSatisfiedExactly(goals, points, segs) ==
    /\ \/ ~goals.points.present
       \/ \A v \in 1..Len(points) :
              \E g \in 1..Len(goals.points.items) :
                  pointsEqual(points[v], goals.points.items[g])
    /\ \/ ~goals.segments.present
       \/ \A v \in 1..Len(segs) :
              \E g \in 1..Len(goals.segments.items) :
                  segmentsEqual(segs[v], goals.segments.items[g])
    /\ (goals.points.present \/ goals.segments.present)

\* the test of the goal effect: pointsCleared && segmentsCleared &&
\* (goals.points || goals.segments); an empty array is truthy
goalSatisfied(goals, points, segs) ==
    LET pointsCleared ==
            \/ ~goals.points.present
            \/ \A g \in 1..Len(goals.points.items) :
                   \E v \in 1..Len(points) : pointsEqual(points[v], goals.points.items[g])
        segmentsCleared ==
            \/ ~goals.segments.present
            \/ \A g \in 1..Len(goals.segments.items) :
                   \E v \in 1..Len(segs) : segmentsEqual(segs[v], goals.segments.items[g])
    IN  /\ pointsCleared
        /\ segmentsCleared
        /\ (goals.points.present \/ goals.segments.present)

\* useEffect(..., [segments, visiblePoints, currentLevel, isLevelCleared,
\* clearedLevelIds]).  Its updates are a function of these five values, so
\* running it after a render that changed none of them changes nothing: the
\* model runs it after every render.
goalEffect(c, u) ==
    IF ~hasCurrentLevel(c) \/ c.isLevelCleared THEN u
    ELSE IF goalSatisfied(currentLevel(c).goals, c.visiblePoints, c.segments)
         THEN [u EXCEPT !.isLevelCleared = TRUE,
                        !.clearedLevelIds =
                            IF includes(c.clearedLevelIds, currentLevel(c).id) THEN @
                            ELSE Append(@, currentLevel(c).id)]
         ELSE u

runEffects(prev, c) == goalEffect(c, resetLevelEffect(prev, c, c))

\* the render of state s after the render of prev: the memo is recomputed
\* when segments changed
render(prev, s) ==
    [s EXCEPT !.allDiscoverablePoints =
        IF s.segments = prev.segments THEN prev.allDiscoverablePoints
        ELSE discoverablePoints(s.segments)]

\* render, run the effects, and again while they change the state
RECURSIVE settle(_, _)
\* c is rendered and its effects leave n
rerender(c, n) == IF n = c THEN c ELSE settle(c, n)
afterRender(prev, c) == rerender(c, runEffects(prev, c))
settle(prev, s) == afterRender(prev, render(prev, s))

(***************************************************************************)
(* The state machine.  A step is one event: its handler runs on the state  *)
(* of the last render, React renders, and the effects run until nothing    *)
(* changes; the next event finds the settled state.                        *)
(***************************************************************************)
Mounted ==
    /\ levelGroups = <<>>
    /\ isLoading = TRUE
    /\ currentView = "HOME"
    /\ levelIndex = 0
    /\ visiblePoints = <<>>
    /\ segments = <<>>
    /\ history = <<>>
    /\ historyIndex = -1
    /\ isLevelCleared = FALSE
    /\ clearedLevelIds = <<>>
    /\ dragStartPoint = NullPoint
    /\ startMouseScreenPos = NullPos
    /\ isActuallyDragging = FALSE
    /\ allDiscoverablePoints = discoverablePoints(<<>>)
    /\ lastEvent = [op |-> "mount", cursor |-> -1, len |-> 0]

Init == Mounted /\ fnIn = NoCall /\ fnOut = <<>>

\* the next event finds the settled state r
Settled(op, r) ==
    /\ levelGroups' = r.levelGroups
    /\ isLoading' = r.isLoading
    /\ currentView' = r.currentView
    /\ levelIndex' = r.levelIndex
    /\ visiblePoints' = r.visiblePoints
    /\ segments' = r.segments
    /\ history' = r.history
    /\ historyIndex' = r.historyIndex
    /\ isLevelCleared' = r.isLevelCleared
    /\ clearedLevelIds' = r.clearedLevelIds
    /\ dragStartPoint' = r.dragStartPoint
    /\ startMouseScreenPos' = r.startMouseScreenPos
    /\ isActuallyDragging' = r.isActuallyDragging
    /\ allDiscoverablePoints' = r.allDiscoverablePoints
    /\ lastEvent' = [op |-> op, cursor |-> historyIndex, len |-> Len(history)]
    /\ UNCHANGED <<fnIn, fnOut>>

\* the event op leaves the queued state u behind
Step(op, u) == Settled(op, settle(State, u))

\* the play screen is shown: its buttons and its board take events
Playing == ~isLoading /\ currentView = "PLAY" /\ hasCurrentLevel(State)

FetchLevels ==
    /\ isLoading
    /\ Step("fetch", [State EXCEPT !.levelGroups = LevelGroups, !.isLoading = FALSE])

FetchFailed ==
    /\ isLoading
    /\ Step("fetchFailed", [State EXCEPT !.isLoading = FALSE])

GoLevelSelect ==
    /\ ~isLoading
    /\ currentView = "HOME" \/ Playing
    /\ Step("levelSelect", [State EXCEPT !.currentView = "LEVEL_SELECT"])

GoEditor ==
    /\ ~isLoading
    /\ currentView = "HOME"
    /\ Step("editor", [State EXCEPT !.currentView = "EDITOR"])

GoHome ==
    /\ ~isLoading
    /\ currentView \in {"LEVEL_SELECT", "EDITOR"}
    /\ Step("home", [State EXCEPT !.currentView = "HOME"])

StartGroup ==
    /\ ~isLoading
    /\ currentView = "LEVEL_SELECT"
    /\ \E g \in 1..Len(levelGroups) : Step("startGroup", startGroup(State, State, levelGroups[g]))

PreviousLevel ==
    /\ Playing
    /\ Step("previousLevel", previousLevel(State, State))

NextLevel ==
    /\ Playing
    /\ Step("nextLevel", nextLevel(State, State))

\* undo() and redo() are called whether or not the button is greyed out:
\* the handlers carry the same test as the buttons' disabled attribute
Undo ==
    /\ Playing
    /\ Step("undo", undo(State, State))

Redo ==
    /\ Playing
    /\ Step("redo", redo(State, State))

ResetLevel ==
    /\ Playing
    /\ Step("reset", resetLevel(State, State))

MouseDown ==
    /\ Playing
    /\ historyIndex < MaxCursor
    /\ \E e \in Positions : Step("mouseDown", handleMouseDown(State, State, e))

MouseMove ==
    /\ Playing
    /\ \E e \in Positions : Step("mouseMove", handleMouseMove(State, State, e))

\* a mouse-up that called commitToHistory is recorded as a commit
StepMouseUp(u) == Step(IF u.historyIndex # historyIndex THEN "commit" ELSE "mouseUp", u)

MouseUp ==
    /\ Playing
    /\ \E e \in Positions : StepMouseUp(handleMouseUp(State, State, e))

MouseLeave ==
    /\ Playing
    /\ Step("mouseLeave", resetInteraction(State))

Next ==
    \/ FetchLevels
    \/ FetchFailed
    \/ GoLevelSelect
    \/ GoEditor
    \/ GoHome
    \/ StartGroup
    \/ PreviousLevel
    \/ NextLevel
    \/ Undo
    \/ Redo
    \/ ResetLevel
    \/ MouseDown
    \/ MouseMove
    \/ MouseUp
    \/ MouseLeave

Spec == Init /\ [][Next]_vars

(***************************************************************************)
(* The level editor (src/unnamed/part_000): its board and its snap.        *)
(***************************************************************************)
EditorCellSize == 50
EditorPadding == 30
EditorBoardSize == (GRID_SIZE - 1) * EditorCellSize + EditorPadding * 2

\* Math.round: the nearest integer, halves going up
round(a) == (2 * a[1] + a[2]) \div (2 * a[2])

\* the editor's screen-to-grid map with the SVG drawn unscaled at the page origin
editorGridCoords(e) ==
    [x |-> <<e.x - EditorPadding, EditorCellSize>>, y |-> <<e.y - EditorPadding, EditorCellSize>>]

\* snap accepting a coordinate with one axis within the threshold
snapOnEitherAxis(gridX, gridY) ==
    IF \/ Lt(AbsR(Sub(gridX, Num(round(gridX)))), SNAP_THRESHOLD)
       \/ Lt(AbsR(Sub(gridY, Num(round(gridY)))), SNAP_THRESHOLD)
    THEN GridPt(round(gridX), round(gridY))
    ELSE NullPoint

snap(gridX, gridY) ==
    IF /\ Lt(AbsR(Sub(gridX, Num(round(gridX)))), SNAP_THRESHOLD)
       /\ Lt(AbsR(Sub(gridY, Num(round(gridY)))), SNAP_THRESHOLD)
    THEN GridPt(round(gridX), round(gridY))
    ELSE NullPoint

(***************************************************************************)
(* The goal test on its own: a goal and a board are drawn from the sets    *)
(* below, the board grows by one point or one line at a time, and the test *)
(* is applied to every board.  The app stays as mounted.                   *)
(***************************************************************************)
\* a board holds at most this many points and lines
MaxSnapshot == 3

GoalPointLists == {Absent, Present(<<>>), Present(<<GridPt(6, 6)>>)}
GoalLineLists ==
    {Absent, Present(<<>>),
     Present(<<Seg(GridPt(0, 0), GridPt(6, 6), NoType)>>),
     Present(<<Seg(GridPt(0, 0), GridPt(3, 3), "RAY")>>),
     Present(<<Seg(GridPt(0, 6), GridPt(6, 0), "LINE")>>)}
\* the last point is within EPSILON of (6,6)
PointPool == {GridPt(0, 0), GridPt(3, 3), [x |-> <<120001, 20000>>, y |-> Num(6)]}
LinePool ==
    {Seg(GridPt(6, 6), GridPt(0, 0), "SEGMENT"),
     Seg(GridPt(0, 0), GridPt(6, 6), "RAY"),
     Seg(GridPt(3, 3), GridPt(0, 0), "RAY"),
     Seg(GridPt(4, 2), GridPt(2, 4), "LINE")}
StartBoards ==
    {[points |-> <<>>, segments |-> <<>>],
     [points |-> <<GridPt(6, 6)>>, segments |-> <<Seg(GridPt(0, 0), GridPt(6, 6), "SEGMENT")>>]}

GoalInit ==
    /\ Mounted
    /\ fnIn \in {[fn |-> "goalSatisfied",
                   goals |-> [points |-> gp, segments |-> gl],
                   points |-> b.points, segments |-> b.segments] :
                      gp \in GoalPointLists, gl \in GoalLineLists, b \in StartBoards}
    /\ fnOut = <<goalSatisfied(fnIn.goals, fnIn.points, fnIn.segments)>>

\* the goal of fnIn is tested on the board of these points and lines
GoalTested(points, segs) ==
    /\ fnIn' = [fnIn EXCEPT !.points = points, !.segments = segs]
    /\ fnOut' = Append(fnOut, goalSatisfied(fnIn.goals, points, segs))
    /\ UNCHANGED appVars

PointAdded ==
    /\ Len(fnIn.points) + Len(fnIn.segments) < MaxSnapshot
    /\ \E p \in PointPool : GoalTested(Append(fnIn.points, p), fnIn.segments)

LineAdded ==
    /\ Len(fnIn.points) + Len(fnIn.segments) < MaxSnapshot
    /\ \E l \in LinePool : GoalTested(fnIn.points, Append(fnIn.segments, l))

GoalNext == PointAdded \/ LineAdded

GoalSpec == GoalInit /\ [][GoalNext]_vars

(***************************************************************************)
(* Line equality on its own: a line between two vertices of the grid is    *)
(* compared with itself reversed, with its far end moved and with its      *)
(* origin moved.  The app stays as mounted.                                *)
(***************************************************************************)
\* the 49 vertices of the grid
Lattice == {GridPt(i, j) : i, j \in GRID_MIN..GRID_MAX}

reversedLine(s) == Seg(s.p2, s.p1, s.type)

EqualInit ==
    /\ Mounted
    /\ fnIn \in {[fn |-> "segmentsEqual", s1 |-> Seg(a, b, t), s2 |-> Seg(a, b, t)] :
                      a \in Lattice, b \in Lattice, t \in LineType}
    /\ fnIn.s1.p1 # fnIn.s1.p2
    /\ fnOut = <<>>

\* segmentsEqual(s1, s2) is called for the second line s2
Compared(s2) ==
    /\ fnOut = <<>>
    /\ fnIn' = [fnIn EXCEPT !.s2 = s2]
    /\ fnOut' = <<segmentsEqual(fnIn.s1, s2)>>
    /\ UNCHANGED appVars

ComparedReversed == Compared(reversedLine(fnIn.s1))

ComparedEndMoved ==
    \E d \in Lattice \ {fnIn.s1.p1} : Compared(Seg(fnIn.s1.p1, d, fnIn.s1.type))

ComparedOriginMoved ==
    \E c \in Lattice \ {fnIn.s1.p2} : Compared(Seg(c, fnIn.s1.p2, fnIn.s1.type))

EqualNext == ComparedReversed \/ ComparedEndMoved \/ ComparedOriginMoved

EqualSpec == EqualInit /\ [][EqualNext]_vars

(***************************************************************************)
(* getIntersection on its own: it is called for pairs of the lines below.  *)
(* The app stays as mounted.                                               *)
(***************************************************************************)
\* the lines under test join the vertices with coordinates 0..MaxCoord
MaxCoord == 2

CrossPoints == {GridPt(i, j) : i, j \in 0..MaxCoord}

\* four lines between grid vertices that enclose a small quadrilateral near
\* (2.03, 3.38); its corners are crossings the game offers as points
QuadSides ==
    << Seg(GridPt(0, 5), GridPt(5, 1), "SEGMENT"),
       Seg(GridPt(0, 0), GridPt(3, 5), "SEGMENT"),
       Seg(GridPt(1, 4), GridPt(6, 1), "SEGMENT"),
       Seg(GridPt(1, 2), GridPt(4, 6), "SEGMENT") >>
QuadCorner(i, j) == getIntersection(QuadSides[i], QuadSides[j])
\* the two diagonals of the quadrilateral, drawn as segments
QuadDiagonals ==
    {Seg(QuadCorner(1, 2), QuadCorner(3, 4), "SEGMENT"),
     Seg(QuadCorner(2, 3), QuadCorner(1, 4), "SEGMENT")}

\* the ray from (1.5, 1.5) in the direction (1, 1)
AwayRay == Seg(Pt(<<3, 2>>, <<3, 2>>), Pt(<<5, 2>>, <<5, 2>>), "RAY")

CrossLines ==
    {Seg(a, b, t) : a \in CrossPoints, b \in CrossPoints, t \in LineType}
        \cup QuadDiagonals \cup {AwayRay}

\* the first line starts on the left edge of the grid, or is one of the
\* diagonals or the ray
CrossInit ==
    /\ Mounted
    /\ fnIn \in {[fn |-> "getIntersection", s1 |-> l, s2 |-> l] : l \in CrossLines}
    /\ fnIn.s1.p1 # fnIn.s1.p2
    /\ fnIn.s1.p1.x = Num(0) \/ fnIn.s1 \in QuadDiagonals \cup {AwayRay}
    /\ fnOut = <<>>

\* getIntersection(s1, s2) is called for a second line s2
Intersected ==
    /\ fnOut = <<>>
    /\ \E l \in CrossLines :
           /\ l.p1 # l.p2
           /\ fnIn' = [fnIn EXCEPT !.s2 = l]
           /\ fnOut' = <<getIntersection(fnIn.s1, l)>>
    /\ UNCHANGED appVars

CrossNext == Intersected

CrossSpec == CrossInit /\ [][CrossNext]_vars

(***************************************************************************)
(* The discoverable points on their own: lines are drawn one at a time     *)
(* from the set below and the list is computed for every list of lines.    *)
(* The app stays as mounted.                                               *)
(***************************************************************************)
\* at most this many lines are drawn
MaxLines == 3

DiscoverLines ==
    {Seg(GridPt(0, 0), GridPt(6, 6), "SEGMENT"),
     Seg(GridPt(0, 6), GridPt(6, 0), "SEGMENT"),      \* meets the first at (3,3)
     Seg(GridPt(0, 0), GridPt(6, 5), "SEGMENT"),      \* crosses grid lines off the vertices
     Seg(GridPt(2, 2), GridPt(3, 4), "RAY"),          \* goes on beyond (3,4)
     Seg(GridPt(1, 3), GridPt(2, 3), "LINE"),         \* horizontal, the whole row
     Seg(GridPt(1, 1), GridPt(1, 4), NoType),         \* vertical, type missing
     Seg(GridPt(0, 0), Pt(Num(3), <<5, 2>>), "SEGMENT"),   \* lies on the third
     \* ends within EPSILON of (6,6): passes every vertex of the diagonal closely
     Seg(GridPt(0, 0), [x |-> <<120001, 20000>>, y |-> Num(6)], "LINE")}

DiscoverInit ==
    /\ Mounted
    /\ fnIn = [fn |-> "allDiscoverablePoints", segments |-> <<>>]
    /\ fnOut = <<discoverablePoints(<<>>)>>

\* the memo is recomputed for the lines segs
Discovered(segs) ==
    /\ fnIn' = [fnIn EXCEPT !.segments = segs]
    /\ fnOut' = <<discoverablePoints(segs)>>
    /\ UNCHANGED appVars

LineDrawn ==
    /\ Len(fnIn.segments) < MaxLines
    /\ \E l \in DiscoverLines : Discovered(Append(fnIn.segments, l))

DiscoverNext == LineDrawn

DiscoverSpec == DiscoverInit /\ [][DiscoverNext]_vars

(***************************************************************************)
(* Snapping on its own.  On the play screen the first level is loaded and  *)
(* the pointer goes to every position of PointerPositions, those that      *)
(* reach no point included; in the editor the pointer is pressed at one    *)
(* of the stops of its board and snap is called.                           *)
(***************************************************************************)
\* the editor's pointer stops every PixelStep pixels on both axes
PixelStep == 10

EditorStops == {PixelStep * i : i \in 0..(EditorBoardSize \div PixelStep)}
SnapPositions == {PointerPositions[i] : i \in DOMAIN PointerPositions}

\* the states of the app on the way to the first level and to the editor
atMount ==
    [levelGroups |-> <<>>, isLoading |-> TRUE, currentView |-> "HOME", levelIndex |-> 0,
     visiblePoints |-> <<>>, segments |-> <<>>, history |-> <<>>, historyIndex |-> -1,
     isLevelCleared |-> FALSE, clearedLevelIds |-> <<>>,
     dragStartPoint |-> NullPoint, startMouseScreenPos |-> NullPos,
     isActuallyDragging |-> FALSE, allDiscoverablePoints |-> discoverablePoints(<<>>)]
fetched == settle(atMount, [atMount EXCEPT !.levelGroups = LevelGroups, !.isLoading = FALSE])
levelList == settle(fetched, [fetched EXCEPT !.currentView = "LEVEL_SELECT"])
firstLevelLoaded == settle(levelList, startGroup(levelList, levelList, LevelGroups[1]))
editorOpen == settle(fetched, [fetched EXCEPT !.currentView = "EDITOR"])

\* the app is in state r
AppIs(r) ==
    /\ levelGroups = r.levelGroups
    /\ isLoading = r.isLoading
    /\ currentView = r.currentView
    /\ levelIndex = r.levelIndex
    /\ visiblePoints = r.visiblePoints
    /\ segments = r.segments
    /\ history = r.history
    /\ historyIndex = r.historyIndex
    /\ isLevelCleared = r.isLevelCleared
    /\ clearedLevelIds = r.clearedLevelIds
    /\ dragStartPoint = r.dragStartPoint
    /\ startMouseScreenPos = r.startMouseScreenPos
    /\ isActuallyDragging = r.isActuallyDragging
    /\ allDiscoverablePoints = r.allDiscoverablePoints

SnapInit ==
    \/ /\ AppIs(firstLevelLoaded)
       /\ lastEvent = [op |-> "startGroup", cursor |-> -1, len |-> 0]
       /\ fnIn = NoCall
       /\ fnOut = <<>>
    \/ /\ AppIs(editorOpen)
       /\ lastEvent = [op |-> "editor", cursor |-> -1, len |-> 0]
       /\ fnIn \in {[fn |-> "snap", e |-> [x |-> px, y |-> py]] :
                         px \in EditorStops, py \in EditorStops}
       /\ fnOut = <<>>

PointerDown ==
    /\ Playing
    /\ historyIndex < MaxCursor
    /\ \E e \in SnapPositions : Step("mouseDown", handleMouseDown(State, State, e))

PointerMove ==
    /\ Playing
    /\ \E e \in SnapPositions : Step("mouseMove", handleMouseMove(State, State, e))

PointerUp ==
    /\ Playing
    /\ \E e \in SnapPositions : StepMouseUp(handleMouseUp(State, State, e))

\* the editor's handleMouseDown calls snap for the pointer's position
EditorPointerDown ==
    /\ currentView = "EDITOR"
    /\ fnOut = <<>>
    /\ fnOut' = <<snap(editorGridCoords(fnIn.e).x, editorGridCoords(fnIn.e).y)>>
    /\ UNCHANGED <<appVars, fnIn>>

SnapNext == PointerDown \/ PointerMove \/ PointerUp \/ EditorPointerDown

SnapSpec == SnapInit /\ [][SnapNext]_vars

(***************************************************************************)
(* Lines between crossing points that lie close together.  The level has   *)
(* four lines through grid vertices whose six crossings fall within a      *)
(* fiftieth of a cell of one another, and its tool draws lines; the        *)
(* pointer goes to the pixels nearest to four of the crossings.            *)
(***************************************************************************)
MaxDrawn == 2

NearbyLevel ==
    [id |-> 5,
     lineType |-> "LINE",
     initial |-> [points |-> Present(<<>>),
                  segments |-> Present(<<Seg(GridPt(2, 4), GridPt(3, 1), "LINE"),
                                         Seg(GridPt(0, 1), GridPt(5, 5), "LINE"),
                                         Seg(GridPt(1, 4), GridPt(6, 0), "LINE"),
                                         Seg(GridPt(2, 1), GridPt(3, 6), "LINE")>>)],
     goals |-> [points |-> Present(<<GridPt(6, 6)>>), segments |-> Absent]]

NearbyGroups == << [id |-> 1, levels |-> <<NearbyLevel>>] >>

NearbyPositions ==
    { [x |-> 183, y |-> 215],     \* nearest to (50/21, 61/21)
      [x |-> 182, y |-> 215],     \* nearest to (26/11, 32/11)
      [x |-> 182, y |-> 214],     \* nearest to (45/19, 55/19)
      [x |-> 183, y |-> 214],     \* nearest to (69/29, 84/29)
      [x |-> 130, y |-> 130] }    \* (1.5, 1.5): within reach of no point

nearbyFetched ==
    settle(atMount, [atMount EXCEPT !.levelGroups = NearbyGroups, !.isLoading = FALSE])
nearbyList == settle(nearbyFetched, [nearbyFetched EXCEPT !.currentView = "LEVEL_SELECT"])
nearbyLoaded == settle(nearbyList, startGroup(nearbyList, nearbyList, NearbyGroups[1]))

NearbyInit ==
    /\ AppIs(nearbyLoaded)
    /\ lastEvent = [op |-> "startGroup", cursor |-> -1, len |-> 0]
    /\ fnIn = NoCall
    /\ fnOut = <<>>

NearbyDown ==
    /\ Playing
    /\ historyIndex < MaxDrawn
    /\ \E e \in NearbyPositions : Step("mouseDown", handleMouseDown(State, State, e))

NearbyMove ==
    /\ Playing
    /\ \E e \in NearbyPositions : Step("mouseMove", handleMouseMove(State, State, e))

NearbyUp ==
    /\ Playing
    /\ \E e \in NearbyPositions : StepMouseUp(handleMouseUp(State, State, e))

NearbyNext == NearbyDown \/ NearbyMove \/ NearbyUp

NearbySpec == NearbyInit /\ [][NearbyNext]_vars

(***************************************************************************)
(* Two handlers before a render.  commitToHistory, undo, redo and          *)
(* resetLevel read history and historyIndex from the closure of the last   *)
(* render and queue their updates; when a second handler is called before  *)
(* the component has rendered again it reads the same closure, and its     *)
(* updates are applied after those of the first.  The first level is       *)
(* played; the pointer events, undo, redo and reset are handled one per    *)
(* render or two per render.                                               *)
(***************************************************************************)
HistoryHandlers == {"mouseUp", "undo", "redo", "reset"}

\* the handler called on closure c with the updates u already queued
historyHandler(name, c, u, e) ==
    CASE name = "mouseUp" -> handleMouseUp(c, u, e)
      [] name = "undo" -> undo(c, u)
      [] name = "redo" -> redo(c, u)
      [] name = "reset" -> resetLevel(c, u)

BatchInit ==
    /\ AppIs(firstLevelLoaded)
    /\ lastEvent = [op |-> "startGroup", cursor |-> -1, len |-> 0]
    /\ fnIn = NoCall
    /\ fnOut = <<>>

\* the cursor is an index of the history.  With the cursor outside, undo
\* reads an entry that does not exist and the component throws: the program
\* is followed up to such a state and not beyond
cursorInHistory == historyIndex + 1 \in DOMAIN history

BatchMouseDown == cursorInHistory /\ MouseDown
BatchMouseMove == cursorInHistory /\ MouseMove
BatchMouseUp == cursorInHistory /\ MouseUp
BatchUndo == cursorInHistory /\ Undo
BatchRedo == cursorInHistory /\ Redo
BatchReset == cursorInHistory /\ ResetLevel

\* two handlers are called on the closure of one render
TwoHandled ==
    /\ cursorInHistory
    /\ Playing
    /\ \E first, second \in HistoryHandlers : \E e \in Positions :
           Step("two", historyHandler(second, State, historyHandler(first, State, State, e), e))

BatchNext ==
    \/ BatchMouseDown
    \/ BatchMouseMove
    \/ BatchMouseUp
    \/ BatchUndo
    \/ BatchRedo
    \/ BatchReset
    \/ TwoHandled

BatchSpec == BatchInit /\ [][BatchNext]_vars

(***************************************************************************)
(* The claims.  A goal is matched by a board when each of its points and   *)
(* lines has an equal on the board; a missing list has nothing to match.   *)
(***************************************************************************)
GoalMatched(level, points, segs) ==
    /\ \A g \in 1..Len(level.goals.points.items) :
           \E v \in 1..Len(points) : pointsEqual(points[v], level.goals.points.items[g])
    /\ \A g \in 1..Len(level.goals.segments.items) :
           \E v \in 1..Len(segs) : segmentsEqual(segs[v], level.goals.segments.items[g])

\* the goal has neither a point nor a line, its lists missing or empty
GoalEmpty(level) ==
    Len(level.goals.points.items) = 0 /\ Len(level.goals.segments.items) = 0

\* the level switches of the play screen and of the level list
LevelLoads == {"startGroup", "previousLevel", "nextLevel"}

\* C1: once the effects of an action have settled, the cleared flag is true
\* only if every goal point and every goal line of the level being played is
\* matched by the current board.
C1_ClearedOnlyIfMatched ==
    isLevelCleared =>
        /\ hasCurrentLevel(State)
        /\ GoalMatched(currentLevel(State), visiblePoints, segments)

\* C2: a level whose goal has neither points nor lines, the lists missing or
\* empty, is never cleared.
C2_EmptyGoalNeverCleared ==
    (hasCurrentLevel(State) /\ GoalEmpty(currentLevel(State))) => ~isLevelCleared

\* C3: a commit at cursor i leaves exactly i+2 entries, the former entries
\* 0..i unchanged and in order followed by the new snapshot, and moves the
\* cursor to i+1, the last index: nothing is left to redo.
C3_CommitTruncates ==
    [][lastEvent'.op = "commit" =>
          /\ historyIndex <= Len(history) - 1
          /\ Len(history') = historyIndex + 2
          /\ SubSeq(history', 1, historyIndex + 1) = SubSeq(history, 1, historyIndex + 1)
          /\ history'[historyIndex + 2] = [points |-> visiblePoints', segments |-> segments']
          /\ historyIndex' = historyIndex + 1
          /\ historyIndex' = Len(history') - 1]_vars

\* a commit was made below the last entry: redoable entries were dropped
C3_CommittedBelowLast ==
    lastEvent.op = "commit" /\ lastEvent.cursor < lastEvent.len - 1

\* the snapshot a level starts from
initialSnapshot(level) == [points |-> initPoints(level), segments |-> initSegments(level)]

\* C4: once a level has been loaded the history is non-empty, the cursor is
\* an index of it, and its first entry is the initial configuration of the
\* level being played.
C4_HistoryInvariant ==
    (currentView = "PLAY" \/ history # <<>>) =>
        /\ hasCurrentLevel(State)
        /\ Len(history) >= 1
        /\ 0 <= historyIndex
        /\ historyIndex <= Len(history) - 1
        /\ history[1] = initialSnapshot(currentLevel(State))

\* a level is played with entries on both sides of the cursor
C4_CursorInside ==
    currentView = "PLAY" /\ 0 < historyIndex /\ historyIndex < Len(history) - 1

\* C5: undo with the cursor at 0 and redo with the cursor at the last index
\* change neither the history, the cursor, the board nor the cleared flag.
C5_NoOpAtBounds ==
    [][(\/ lastEvent'.op = "undo" /\ historyIndex = 0
        \/ lastEvent'.op = "redo" /\ historyIndex = Len(history) - 1) =>
          UNCHANGED <<history, historyIndex, visiblePoints, segments, isLevelCleared>>]_vars

\* undo was called on a cleared level with the cursor at 0
C5_UndoAtStart ==
    lastEvent.op = "undo" /\ lastEvent.cursor = 0 /\ isLevelCleared

\* what the undo and the redo button leave behind when pressed in state s
undoPressed(s) == settle(s, undo(s, s))
redoPressed(s) == settle(s, redo(s, s))

sameSnapshot(a, b) ==
    /\ a.historyIndex = b.historyIndex
    /\ a.visiblePoints = b.visiblePoints
    /\ a.segments = b.segments
    /\ a.history = b.history

\* C6: from a cursor above 0, undo then redo gives back the cursor, the
\* board and the history; from a cursor below the last index, so does redo
\* then undo.
C6_UndoRedoInverse ==
    Playing =>
        /\ historyIndex > 0 => sameSnapshot(redoPressed(undoPressed(State)), State)
        /\ historyIndex < Len(history) - 1 =>
               sameSnapshot(undoPressed(redoPressed(State)), State)

\* a redo has moved the cursor forward, over an entry an undo had left
C6_Redone ==
    Playing /\ lastEvent.op = "redo" /\ historyIndex = lastEvent.cursor + 1

C8_MatchedGoalClears ==
    (/\ hasCurrentLevel(State)
     /\ ~GoalEmpty(currentLevel(State))
     /\ GoalMatched(currentLevel(State), visiblePoints, segments)) => isLevelCleared

\* a commit completed a non-empty goal
C8_CommitCleared ==
    /\ lastEvent.op = "commit"
    /\ hasCurrentLevel(State)
    /\ ~GoalEmpty(currentLevel(State))
    /\ GoalMatched(currentLevel(State), visiblePoints, segments)
    /\ isLevelCleared

\* every element of the list small is an element of the list big
listWithin(small, big) == \A i \in 1..Len(small) : \E j \in 1..Len(big) : big[j] = small[i]

SupersetChain(h) ==
    \A k \in 2..Len(h) :
        /\ listWithin(h[k - 1].points, h[k].points)
        /\ listWithin(h[k - 1].segments, h[k].segments)

\* C9: each history entry holds every point and line of the entry before
\* it; only a commit adds an entry to a history (a reset and a level load
\* start it anew, every other action leaves it as it is); and nothing
\* leaves the board except by undo, redo or reset, a level load being a
\* reset.
C9_SnapshotsGrow ==
    [][/\ SupersetChain(history')
       /\ (history # <<>> /\ Len(history') > Len(history)) => lastEvent'.op = "commit"
       /\ lastEvent'.op \notin {"commit", "reset"} \cup LevelLoads => history' = history
       /\ lastEvent'.op \notin {"undo", "redo", "reset"} \cup LevelLoads =>
              /\ listWithin(visiblePoints, visiblePoints')
              /\ listWithin(segments, segments')]_vars

\* a second commit was stacked on a first
C9_TwoCommits ==
    lastEvent.op = "commit" /\ Len(history) >= 3

\* C10: a board that satisfies a goal still satisfies it after any number
\* of points and lines have been added to it and none removed.
C10_GoalMonotonic ==
    \A i \in 1..Len(fnOut) : \A j \in i..Len(fnOut) : fnOut[i] => fnOut[j]

\* a goal with a point or a line, not satisfied at first, was satisfied by
\* an addition and still is after the next
C10_SatisfiedAndGrown ==
    /\ fnIn.fn = "goalSatisfied"
    /\ Len(fnIn.goals.points.items) + Len(fnIn.goals.segments.items) > 0
    /\ Len(fnOut) >= 3
    /\ ~fnOut[1]
    /\ fnOut[Len(fnOut) - 1]
    /\ fnOut[Len(fnOut)]

\* a level that starts from the points (0,0) and (6,6) with no line and whose
\* goal is the one segment between them
DiagonalLevel(level) ==
    /\ initPoints(level) = <<GridPt(0, 0), GridPt(6, 6)>>
    /\ initSegments(level) = <<>>
    /\ level.goals.points = Absent
    /\ Len(level.goals.segments.items) = 1
    /\ level.goals.segments.items[1].p1 = GridPt(0, 0)
    /\ level.goals.segments.items[1].p2 = GridPt(6, 6)
    /\ typeOrSegment(level.goals.segments.items[1].type) = "SEGMENT"

\* the line joins (0,0) and (6,6), drawn from either end
joinsCorners(s) == {s.p1, s.p2} = {GridPt(0, 0), GridPt(6, 6)}

\* C11: a goal line is matched only by a drawn line of the same type, a
\* missing type counting as SEGMENT: on a level that starts from the points
\* (0,0) and (6,6) with no line and asks for the segment between them, the
\* commit of a line drawn between the two points clears the level when the
\* line is a SEGMENT and leaves it uncleared when the line is a LINE.
C11_TypeMustMatch ==
    [][(/\ lastEvent'.op = "commit"
        /\ hasCurrentLevel(State)
        /\ DiagonalLevel(currentLevel(State))
        /\ segments = <<>>
        /\ Len(segments') = 1
        /\ joinsCorners(segments'[1]))
          => /\ historyIndex' = historyIndex + 1
             /\ history'[historyIndex' + 1] = [points |-> visiblePoints', segments |-> segments']
             /\ isLevelCleared' <=> (typeOrSegment(segments'[1].type) = "SEGMENT")]_vars

\* a LINE through (0,0) and (6,6) was committed and the level is not cleared
C11_LineDrawnNotCleared ==
    /\ lastEvent.op = "commit"
    /\ hasCurrentLevel(State)
    /\ DiagonalLevel(currentLevel(State))
    /\ Len(segments) = 1
    /\ joinsCorners(segments[1])
    /\ segments[1].type = "LINE"
    /\ ~isLevelCleared

\* w is v stretched by a positive number
positiveMultiple(vx, vy, wx, wy) ==
    /\ Sub(Mul(vx, wy), Mul(vy, wx))[1] = 0
    /\ Add(Mul(vx, wx), Mul(vy, wy))[1] > 0

\* C12: between two distinct grid points, a SEGMENT equals the same segment
\* with its endpoints exchanged, a RAY does not equal the ray drawn back
\* from its far point, and two RAYs are equal only if their origins are
\* equal and the direction of one is a positive multiple of the other's.
C12_SegmentUnorderedRayDirected ==
    (fnIn.fn = "segmentsEqual" /\ fnOut # <<>>) =>
        /\ (fnIn.s1.type = "SEGMENT" /\ fnIn.s2 = reversedLine(fnIn.s1)) => fnOut[1]
        /\ (fnIn.s1.type = "RAY" /\ fnIn.s2 = reversedLine(fnIn.s1)) => ~fnOut[1]
        /\ (fnIn.s1.type = "RAY" /\ fnIn.s2.type = "RAY" /\ fnOut[1]) =>
               /\ pointsEqual(fnIn.s1.p1, fnIn.s2.p1)
               /\ positiveMultiple(Sub(fnIn.s1.p2.x, fnIn.s1.p1.x), Sub(fnIn.s1.p2.y, fnIn.s1.p1.y),
                                   Sub(fnIn.s2.p2.x, fnIn.s2.p1.x), Sub(fnIn.s2.p2.y, fnIn.s2.p1.y))

\* two rays from one origin through different points were found equal
C12_RaysThroughDifferentPoints ==
    /\ fnIn.fn = "segmentsEqual"
    /\ fnIn.s1.type = "RAY"
    /\ fnIn.s2.p2 # fnIn.s1.p2
    /\ fnOut = <<TRUE>>

\* the cross product of the vectors (ux, uy) and (vx, vy), in lowest terms
crossOf(ux, uy, vx, vy) == SubLow(MulLow(ux, vy), MulLow(uy, vx))

\* the direction vectors of the two lines are parallel
parallel(s1, s2) ==
    crossOf(SubLow(s1.p2.x, s1.p1.x), SubLow(s1.p2.y, s1.p1.y),
            SubLow(s2.p2.x, s2.p1.x), SubLow(s2.p2.y, s2.p1.y))[1] = 0

\* where the supporting line of s2 meets that of s1, as the parameter along
\* s1 (0 at s1.p1, 1 at s1.p2); the lines are not parallel
crossingParam(s1, s2) ==
    DivLow(crossOf(SubLow(s2.p1.x, s1.p1.x), SubLow(s2.p1.y, s1.p1.y),
                   SubLow(s2.p2.x, s2.p1.x), SubLow(s2.p2.y, s2.p1.y)),
           crossOf(SubLow(s1.p2.x, s1.p1.x), SubLow(s1.p2.y, s1.p1.y),
                   SubLow(s2.p2.x, s2.p1.x), SubLow(s2.p2.y, s2.p1.y)))

\* the point of s at parameter t
pointAt(s, t) ==
    Pt(AddLow(s.p1.x, MulLow(t, SubLow(s.p2.x, s.p1.x))),
       AddLow(s.p1.y, MulLow(t, SubLow(s.p2.y, s.p1.y))))

\* the crossing of the two supporting lines
crossingOf(s1, s2) == pointAt(s1, crossingParam(s1, s2))

\* the part of the supporting line that belongs to a line of this type
withinRange(t, type) ==
    CASE typeOrSegment(type) = "SEGMENT" ->
             ~Lt(t, <<-1, 10000>>) /\ ~Lt(<<10001, 10000>>, t)
      [] typeOrSegment(type) = "RAY" -> ~Lt(t, <<-1, 10000>>)
      [] typeOrSegment(type) = "LINE" -> TRUE

\* inside [0,6] x [0,6] widened by 1/10000 on every side
insideGrid(p) ==
    /\ ~Lt(p.x, <<-1, 10000>>) /\ ~Lt(<<60001, 10000>>, p.x)
    /\ ~Lt(p.y, <<-1, 10000>>) /\ ~Lt(<<60001, 10000>>, p.y)

\* the crossing of the two lines belongs to both and lies inside the grid
crossesInside(s1, s2) ==
    /\ ~parallel(s1, s2)
    /\ withinRange(crossingParam(s1, s2), s1.type)
    /\ withinRange(crossingParam(s2, s1), s2.type)
    /\ insideGrid(crossingOf(s1, s2))

\* C13: getIntersection(A, B) returns a point only if the supporting lines
\* cross, the crossing has its parameter along A within the range of A's
\* type and its parameter along B within the range of B's type, and it lies
\* inside the widened grid; the point returned is that crossing.  Segments
\* (0,0)-(2,2) and (0,2)-(2,0) give (1,1), the ray from (0,0) towards (1,1)
\* and that segment give (1,1), and the ray from (1.5,1.5) pointing away
\* gives none.
C13_IntersectionRespectsType ==
    (fnIn.fn = "getIntersection" /\ fnOut # <<>>) =>
        /\ fnOut[1] # NullPoint =>
               /\ crossesInside(fnIn.s1, fnIn.s2)
               /\ fnOut[1] = crossingOf(fnIn.s1, fnIn.s2)
        /\ (/\ fnIn.s1 = Seg(GridPt(0, 0), GridPt(2, 2), "SEGMENT")
            /\ fnIn.s2 = Seg(GridPt(0, 2), GridPt(2, 0), "SEGMENT")) => fnOut[1] = GridPt(1, 1)
        /\ (/\ fnIn.s1 = Seg(GridPt(0, 0), GridPt(1, 1), "RAY")
            /\ fnIn.s2 = Seg(GridPt(0, 2), GridPt(2, 0), "SEGMENT")) => fnOut[1] = GridPt(1, 1)
        /\ (/\ fnIn.s1 = AwayRay
            /\ fnIn.s2 = Seg(GridPt(0, 2), GridPt(2, 0), "SEGMENT")) => fnOut[1] = NullPoint

\* a ray and a segment were found to meet at a point that is not an end of
\* the ray
C13_RayMeetsSegment ==
    /\ fnIn.fn = "getIntersection"
    /\ fnOut # <<>>
    /\ fnIn.s1.type = "RAY"
    /\ fnIn.s2.type = "SEGMENT"
    /\ fnOut[1] # NullPoint
    /\ fnOut[1] # fnIn.s1.p1
    /\ fnOut[1] # fnIn.s1.p2

\* C14: getIntersection returns none for every pair of lines with parallel
\* direction vectors, collinear and overlapping ones included, whatever
\* their types; and two lines that are not parallel are never taken for
\* parallel: when their crossing belongs to both and lies inside the grid,
\* a point is returned.
C14_NoneOnlyIfParallel ==
    (fnIn.fn = "getIntersection" /\ fnOut # <<>>) =>
        /\ parallel(fnIn.s1, fnIn.s2) => fnOut[1] = NullPoint
        /\ crossesInside(fnIn.s1, fnIn.s2) => fnOut[1] # NullPoint

\* some entry of the list is pointsEqual to p
listed(points, p) == \E i \in 1..Len(points) : pointsEqual(points[i], p)

\* C15: the discoverable-point list of any lines holds no two entries that
\* are pointsEqual, and every grid vertex is in it as the vertex itself: a
\* crossing that coincides with a vertex or an earlier point is discarded.
C15_NoEqualEntries ==
    fnIn.fn = "allDiscoverablePoints" =>
        /\ \A i, j \in 1..Len(fnOut[1]) : i < j => ~pointsEqual(fnOut[1][i], fnOut[1][j])
        /\ \A v \in Lattice : \E i \in 1..Len(fnOut[1]) : fnOut[1][i] = v

\* two of the lines cross at a grid vertex, or within EPSILON of one
C15_CrossingAtVertex ==
    /\ fnIn.fn = "allDiscoverablePoints"
    /\ \E i, j \in 1..Len(fnIn.segments) :
           /\ i < j
           /\ getIntersection(fnIn.segments[i], fnIn.segments[j]) # NullPoint
           /\ \E v \in Lattice :
                  pointsEqual(getIntersection(fnIn.segments[i], fnIn.segments[j]), v)

\* where the line s meets the vertical grid line x = k, as the parameter
\* along s; the line is not vertical
paramAtX(s, k) == DivLow(SubLow(Num(k), s.p1.x), SubLow(s.p2.x, s.p1.x))
\* where it meets the horizontal grid line y = k; the line is not horizontal
paramAtY(s, k) == DivLow(SubLow(Num(k), s.p1.y), SubLow(s.p2.y, s.p1.y))

\* the line s meets the grid line at parameter t on its own part of the
\* supporting line and inside the grid
meetsGridLine(s, t) == withinRange(t, s.type) /\ insideGrid(pointAt(s, t))

resetClosure(i) == [State EXCEPT !.levelIndex = i, !.currentView = "PLAY"]

axisNear(a) == \E k \in (GRID_MIN - 1)..(GRID_MAX + 1) : Lt(AbsR(SubLow(a, Num(k))), <<2, 5>>)

\* the points the play screen snaps to
snapCandidates == {visiblePoints[i] : i \in 1..Len(visiblePoints)}
                      \cup {allDiscoverablePoints[i] : i \in 1..Len(allDiscoverablePoints)}

\* p is less than 0.4 away from the raw coordinate
inSnapReach(p, grid) == Lt(distSq(p, grid), <<4, 25>>)

\* the pointer event at e is dropped by the play screen: no drag starts on
\* mouse-down, and mouse-up leaves board, history and cursor as they are
droppedInPlay(e) ==
    /\ handleMouseDown(State, State, e) = State
    /\ handleMouseUp(State, State, e).visiblePoints = visiblePoints
    /\ handleMouseUp(State, State, e).segments = segments
    /\ handleMouseUp(State, State, e).history = history
    /\ handleMouseUp(State, State, e).historyIndex = historyIndex

\* what C18 says of the editor's snap apart from when it fails: a result is
\* the grid vertex less than 0.4 away on each axis
snapGivesVertex ==
    (fnIn.fn = "snap" /\ fnOut # <<>> /\ fnOut[1] # NullPoint) =>
        /\ fnOut[1] \in Lattice
        /\ Lt(AbsR(SubLow(editorGridCoords(fnIn.e).x, fnOut[1].x)), <<2, 5>>)
        /\ Lt(AbsR(SubLow(editorGridCoords(fnIn.e).y, fnOut[1].y)), <<2, 5>>)

\* and of the play screen: a pointer position that reaches no point is dropped
failedSnapDropped ==
    Playing => \A e \in SnapPositions :
        findNearestPoint(State, getGridCoords(e)) = NullPoint => droppedInPlay(e)

\* C18 as stated: snapping maps a raw coordinate to the nearest grid vertex
\* within 0.4 and fails only if neither axis is within the threshold; a
\* failed snap drops the action, leaving board, history and cursor alone.
C18_FailsOnlyIfNeitherAxis ==
    /\ snapGivesVertex
    /\ failedSnapDropped
    /\ (fnIn.fn = "snap" /\ fnOut # <<>> /\ fnOut[1] = NullPoint) =>
           /\ ~axisNear(editorGridCoords(fnIn.e).x)
           /\ ~axisNear(editorGridCoords(fnIn.e).y)
    /\ Playing => \A e \in SnapPositions :
           findNearestPoint(State, getGridCoords(e)) = NullPoint =>
               /\ ~axisNear(getGridCoords(e).x)
               /\ ~axisNear(getGridCoords(e).y)

\* C18 amended: the editor's snap gives the grid vertex less than 0.4 away on
\* both axes and fails as soon as one axis is 0.4 or more from every integer;
\* the play screen snaps to the nearest visible or discoverable point less
\* than 0.4 away in the plane and fails when there is none; a failed snap
\* drops the action, leaving board, history and cursor alone.
C18_SnapNeedsBothAxes ==
    /\ snapGivesVertex
    /\ failedSnapDropped
    /\ (fnIn.fn = "snap" /\ fnOut # <<>>) =>
           (fnOut[1] = NullPoint <=>
               ~(axisNear(editorGridCoords(fnIn.e).x) /\ axisNear(editorGridCoords(fnIn.e).y)))
    /\ Playing => \A e \in SnapPositions :
           /\ findNearestPoint(State, getGridCoords(e)) = NullPoint <=>
                  \A p \in snapCandidates : ~inSnapReach(p, getGridCoords(e))
           /\ findNearestPoint(State, getGridCoords(e)) # NullPoint =>
                  /\ findNearestPoint(State, getGridCoords(e)) \in snapCandidates
                  /\ \A p \in snapCandidates :
                         ~Lt(distSq(p, getGridCoords(e)),
                             distSq(findNearestPoint(State, getGridCoords(e)), getGridCoords(e)))

\* the editor's snap failed for a position within the threshold on one axis
C18_FailedOnOneAxis ==
    /\ fnIn.fn = "snap"
    /\ fnOut = <<NullPoint>>
    /\ axisNear(editorGridCoords(fnIn.e).x)
    /\ ~axisNear(editorGridCoords(fnIn.e).y)

\* the line joins a point to itself
degenerate(s) == pointsEqual(s.p1, s.p2)

\* no line of the sequence is degenerate
allProper(segs) == \A j \in 1..Len(segs) : ~degenerate(segs[j])

\* the levels' initial lines are non-degenerate
initialLinesProper ==
    \A g \in 1..Len(LevelGroups) : \A l \in 1..Len(LevelGroups[g].levels) :
        allProper(LevelGroups[g].levels[l].initial.segments.items)

\* the mouse-up at e ends a drag on the point it started from
endsWhereStarted(e) ==
    /\ Playing
    /\ isActuallyDragging
    /\ dragStartPoint # NullPoint
    /\ findNearestPoint(State, getGridCoords(e)) # NullPoint
    /\ pointsEqual(dragStartPoint, findNearestPoint(State, getGridCoords(e)))

\* the mouse-up at e, followed to the next settled render, leaves history,
\* cursor and board as they are
commitsNothing(e) ==
    /\ settle(State, handleMouseUp(State, State, e)).history = history
    /\ settle(State, handleMouseUp(State, State, e)).historyIndex = historyIndex
    /\ settle(State, handleMouseUp(State, State, e)).visiblePoints = visiblePoints
    /\ settle(State, handleMouseUp(State, State, e)).segments = segments

\* C19: provided the levels' initial lines are non-degenerate, no line of any
\* snapshot of the history (nor of the board) has pointsEqual ends: a drag
\* that ends on the point it started from commits nothing and leaves
\* history, cursor and board unchanged.
C19_NoDegenerateLine ==
    initialLinesProper =>
        /\ \A i \in 1..Len(history) : allProper(history[i].segments)
        /\ allProper(segments)
        /\ \A e \in Positions : endsWhereStarted(e) => commitsNothing(e)

\* a drag is about to end on its starting point, on a board with a drawn line
C19_DragBackToStart ==
    /\ \E e \in Positions : endsWhereStarted(e)
    /\ historyIndex > 0
    /\ Len(segments) > 0

\* no two entries of the sequence are pointsEqual
noEqualPoints(points) ==
    \A i, j \in 1..Len(points) : i # j => ~pointsEqual(points[i], points[j])

\* no two entries of the sequence are segmentsEqual, whichever comes first
noEqualLines(segs) ==
    \A i, j \in 1..Len(segs) : i # j => ~segmentsEqual(segs[i], segs[j])

\* some entry of the sequence is pointsEqual to p
shown(points, p) == \E i \in 1..Len(points) : pointsEqual(points[i], p)

\* the lines of the snapshot that were drawn, those after the initial ones,
\* end on points of the snapshot
drawnEndOnPoints(snapshot) ==
    \A j \in (Len(history[1].segments) + 1)..Len(snapshot.segments) :
        /\ shown(snapshot.points, snapshot.segments[j].p1)
        /\ shown(snapshot.points, snapshot.segments[j].p2)

\* the mouse-up at e is a click on a point that is already visible
clicksVisible(e) ==
    /\ Playing
    /\ ~isActuallyDragging
    /\ dragStartPoint # NullPoint
    /\ findNearestPoint(State, getGridCoords(e)) # NullPoint
    /\ shown(visiblePoints, findNearestPoint(State, getGridCoords(e)))

\* the mouse-up at e ends a drag that draws a line equal to one on the board
drawsExisting(e) ==
    /\ Playing
    /\ isActuallyDragging
    /\ dragStartPoint # NullPoint
    /\ findNearestPoint(State, getGridCoords(e)) # NullPoint
    /\ \E i \in 1..Len(segments) :
           segmentsEqual(segments[i],
                         Seg(dragStartPoint, findNearestPoint(State, getGridCoords(e)),
                             typeOrSegment(currentLevel(State).lineType)))

\* C20: provided the level's initial snapshot has no duplicates, no snapshot
\* of the history holds two points that are pointsEqual or two lines that
\* are segmentsEqual; a click on a visible point and a drag along an
\* existing line commit nothing; and the ends of every drawn line are points
\* of the snapshot that holds the line.
C20_NoDuplicates ==
    (/\ Playing
     /\ noEqualPoints(initPoints(currentLevel(State)))
     /\ noEqualLines(initSegments(currentLevel(State)))) =>
        /\ \A i \in 1..Len(history) :
               /\ noEqualPoints(history[i].points)
               /\ noEqualLines(history[i].segments)
               /\ drawnEndOnPoints(history[i])
        /\ \A e \in SnapPositions \cup NearbyPositions :
               (clicksVisible(e) \/ drawsExisting(e)) => commitsNothing(e)

\* C21: no construction is committed while the cleared flag is true, under
\* every interleaving of the pointer events with undo, redo and reset; so
\* whenever the level is cleared the cursor is at the last history index.
C21_NoCommitWhileCleared ==
    [][/\ lastEvent'.op = "commit" => ~isLevelCleared
       /\ (Playing' /\ isLevelCleared') => historyIndex' = Len(history') - 1]_vars

\* the board is the history entry under the cursor
boardUnderCursor ==
    /\ cursorInHistory
    /\ visiblePoints = history[historyIndex + 1].points
    /\ segments = history[historyIndex + 1].segments

=============================================================================
